---- MODULE Spec2Model ----
(***************************************************************************)
(* Bond-dimension convergence analysis of                                  *)
(* matcha_tea/convergence_analysis_hands_on.py.                            *)
(*                                                                         *)
(* The script sweeps the bond dimensions np.unique(...) in descending      *)
(* order, runs the simulation once per value, keeps the state of the first *)
(* (largest) value as reference_mps, appends the singular values cut to    *)
(* the module-level list singvals and writes the fidelity against the      *)
(* reference into the module-level array fidelities.  After the loop it    *)
(* computes infidelities = 1 - fidelities[::-1] and the cumulative         *)
(* truncated norm of every fifth run.                                      *)
(*                                                                         *)
(* The simulation backend (run_simulation) and the contraction             *)
(* (emulator.contract) are library calls: a backend call either returns a  *)
(* state tagged by the bond dimension it was produced under together with  *)
(* the list of singular values cut, or raises; the contraction is an       *)
(* uninterpreted term over the two states it is given.                      *)
(***************************************************************************)
EXTENDS Integers, Sequences, FiniteSets, TLC

\* ------------------------------------------------------------------ bounds
\* Largest bond dimension that may occur in the swept array.
MaxDim == 6
\* Largest magnitude of a singular value cut reported by the backend.
MaxSv == 2
\* Fewest distinct bond dimensions of a sweep (logspace(0, n // 2 + 1, 20)
\* always holds 1 and 2 ** (n // 2 + 1) >= 2).
MinDims == 2
\* The curve of every PlotStride-th bond dimension is drawn (ii % 5 == 0).
PlotStride == 5

Dims == 1..MaxDim

\* The lists of singular values cut a run may report.
CutSet == {<<>>} \cup {<<m, 1>> : m \in 1..MaxSv}

\* --------------------------------------------------------------- sequences
Range(s) == {s[i] : i \in DOMAIN s}

Min(a, b) == IF a <= b THEN a ELSE b

SetMax(S) == CHOOSE x \in S : \A y \in S : y <= x

SetMin(S) == CHOOSE x \in S : \A y \in S : x <= y

\* s[::-1]
Reverse(s) == [i \in 1..Len(s) |-> s[Len(s) + 1 - i]]

RECURSIVE SortedSeq(_)
SortedSeq(S) == IF S = {} THEN <<>> ELSE <<SetMin(S)>> \o SortedSeq(S \ {SetMin(S)})

\* np.unique: the distinct elements, ascending.
Unique(s) == SortedSeq(Range(s))

\* np.zeros(n): a fidelity that was never written.
Zero == [kind |-> "zero", ref |-> 0, st |-> 0]

Zeros(n) == [i \in 1..n |-> Zero]

RECURSIVE Sum(_)
Sum(s) == IF s = <<>> THEN 0 ELSE s[1] + Sum(Tail(s))

\* np.cumsum
CumSum(s) == [i \in 1..Len(s) |-> Sum(SubSeq(s, 1, i))]

\* ------------------------------------------------------------ library calls
\* The state a successful run at limit chi returns (res.tens_net).
TensNet(chi) == [produced_at |-> chi]

\* QCConvergenceParameters(max_bond_dimension=chi)
ConvParams(chi) == [max_bond_dimension |-> chi]

\* No emulator has been built yet (the name is unbound).
NoMps == [tensors |-> TensNet(0), conv_params |-> ConvParams(0)]

\* QCEmulator.from_tensorlist(res.tens_net, conv_params)
FromTensorlist(tens_net, cp) == [tensors |-> tens_net, conv_params |-> cp]

\* np.abs(a.emulator.contract(b.emulator)) ** 2
Fidelity(a, b) ==
    [kind |-> "abs2", ref |-> a.tensors.produced_at, st |-> b.tensors.produced_at]

\* 1 - f
OneMinus(f) == [one_minus |-> f]

\* ------------------------------------------------------------------- state
VARIABLES
    raw,            \* the array handed to np.unique
    bond_dims,      \* np.unique(raw)
    fidelities,     \* np.zeros(len(bond_dims)), written per step
    singvals,       \* list of the singular values cut, appended per step
    todo,           \* loop indices (0-based) not yet executed
    idx,            \* loop variable of enumerate
    chi,            \* loop variable: the current bond dimension
    res,            \* result of the last simulation
    reference_mps,  \* emulator of the highest bond dimension
    mps_state,      \* emulator of the current step
    infidelities,   \* 1 - fidelities[::-1]
    curves,         \* the cumulative-norm curves drawn
    pc,             \* "sweep", "report", "norms", "done", "raised"
    error,          \* bond dimension whose simulation raised (0: none)
    abandoned,      \* the loop was left before it ran out
    calls           \* history: every backend invocation, in order

vars == <<raw, bond_dims, fidelities, singvals, todo, idx, chi, res,
          reference_mps, mps_state, infidelities, curves, pc, error,
          abandoned, calls>>

NoRes == [tens_net |-> TensNet(0), singular_values_cut |-> <<>>]

\* The raw arrays: an ascending array, the same with every value repeated, and
\* the same in descending order.
Asc(S) == SortedSeq(S)

Dup(S) == [i \in 1..(2 * Cardinality(S)) |-> SortedSeq(S)[(i + 1) \div 2]]

RawInputs == UNION {{Asc(S), Dup(S), Reverse(Asc(S))} :
                       S \in {T \in SUBSET Dims : Cardinality(T) >= MinDims}}

Init ==
    /\ raw \in RawInputs
    /\ bond_dims = Unique(raw)
    /\ fidelities = Zeros(Len(Unique(raw)))
    /\ singvals = <<>>
    /\ todo = 0..(Len(Unique(raw)) - 1)
    /\ idx = 0
    /\ chi = 0
    /\ res = NoRes
    /\ reference_mps = NoMps
    /\ mps_state = NoMps
    /\ infidelities = <<>>
    /\ curves = <<>>
    /\ pc = "sweep"
    /\ error = 0
    /\ abandoned = FALSE
    /\ calls = <<>>

\* ------------------------------------------------------------------- sweep
\* Mutant: the loop visits bond_dims as it is (ascending).
SweepOrderAscending(bd) == bd

\* The order in which the loop visits the bond dimensions: bond_dims[::-1].
SweepOrder(bd) == Reverse(bd)

\* Mutant: the reference is set one step late (idx == 1).
IsReferenceStepLate(i) == i = 1

\* Mutant: the reference is set anew in every step (the test is dropped).
IsReferenceStepAlways(i) == i >= 0

\* The reference is set in the step with idx == 0.
IsReferenceStep(i) == i = 0

\* One pass of the loop body for index i, the simulation returning sv.
Body(i, sv) ==
    LET c == SweepOrder(bond_dims)[i + 1]
        r == [tens_net |-> TensNet(c), singular_values_cut |-> sv]
        ref == IF IsReferenceStep(i)
               THEN FromTensorlist(r.tens_net, ConvParams(c))
               ELSE reference_mps
        st == FromTensorlist(r.tens_net, ConvParams(c))
    IN  /\ idx' = i
        /\ chi' = c
        /\ res' = r
        /\ reference_mps' = ref
        /\ singvals' = Append(singvals, sv)
        /\ mps_state' = st
        /\ fidelities' = [fidelities EXCEPT ![i + 1] = Fidelity(ref, st)]
        /\ todo' = todo \ {i}
        /\ calls' = Append(calls, [chi |-> c, ok |-> TRUE, cut |-> sv])
        /\ UNCHANGED <<raw, bond_dims, infidelities, curves, pc, error, abandoned>>

\* Mutant: the exception is caught and the loop goes on with the next index.
RaiseSwallowed(i) ==
    LET c == SweepOrder(bond_dims)[i + 1]
    IN  /\ idx' = i
        /\ chi' = c
        /\ error' = c
        /\ todo' = todo \ {i}
        /\ calls' = Append(calls, [chi |-> c, ok |-> FALSE, cut |-> <<>>])
        /\ UNCHANGED <<raw, bond_dims, fidelities, singvals, res, pc,
                       reference_mps, mps_state, infidelities, curves, abandoned>>

\* The simulation for index i raises: nothing catches it, the script ends.
Raise(i) ==
    LET c == SweepOrder(bond_dims)[i + 1]
    IN  /\ idx' = i
        /\ chi' = c
        /\ pc' = "raised"
        /\ error' = c
        /\ calls' = Append(calls, [chi |-> c, ok |-> FALSE, cut |-> <<>>])
        /\ UNCHANGED <<raw, bond_dims, fidelities, singvals, todo, res,
                       reference_mps, mps_state, infidelities, curves, abandoned>>

\* The loop takes its indices in order.
Step ==
    /\ pc = "sweep"
    /\ todo # {}
    /\ \E sv \in CutSet : Body(SetMin(todo), sv)

StepFails ==
    /\ pc = "sweep"
    /\ todo # {}
    /\ Raise(SetMin(todo))

\* ------------------------------------------------------------------ report
\* Mutant: the reversal is forgotten (1 - fidelities).
InfidelitiesNotReversed(f) == [i \in 1..Len(f) |-> OneMinus(f[i])]

\* infidelities = 1 - fidelities[::-1]
InfidelitiesOf(f) == [i \in 1..Len(f) |-> OneMinus(Reverse(f)[i])]

\* ii % 5 == 0
IsDrawn(ii) == ii % PlotStride = 0

\* for singv, bd in zip(singvals[::-1], bond_dims): every drawn curve, labelled
\* with bd.
RECURSIVE CurvesFrom(_, _, _)
CurvesFrom(sv, bd, k) ==
    IF k > Min(Len(sv), Len(bd)) THEN <<>>
    ELSE (IF IsDrawn(k - 1)
          THEN <<[label |-> bd[k], y |-> CumSum(Reverse(sv)[k])]>>
          ELSE <<>>) \o CurvesFrom(sv, bd, k + 1)

CurvesOf(sv, bd) == CurvesFrom(sv, bd, 1)

LoopExit ==
    /\ pc = "sweep"
    /\ todo = {}
    /\ pc' = "report"
    /\ UNCHANGED <<raw, bond_dims, fidelities, singvals, todo, idx, chi, res,
                   reference_mps, mps_state, infidelities, curves, error,
                   abandoned, calls>>

ComputeInfidelities ==
    /\ pc = "report"
    /\ infidelities' = InfidelitiesOf(fidelities)
    /\ pc' = "norms"
    /\ UNCHANGED <<raw, bond_dims, fidelities, singvals, todo, idx, chi, res,
                   reference_mps, mps_state, curves, error, abandoned, calls>>

PlotNorms ==
    /\ pc = "norms"
    /\ curves' = CurvesOf(singvals, bond_dims)
    /\ pc' = "done"
    /\ UNCHANGED <<raw, bond_dims, fidelities, singvals, todo, idx, chi, res,
                   reference_mps, mps_state, infidelities, error, abandoned, calls>>

Next == Step \/ StepFails \/ LoopExit \/ ComputeInfidelities \/ PlotNorms

Spec == Init /\ [][Next]_vars

\* The same loop bodies, the steps after the reference step taken in any order
\* (each step still runs its whole body against the module-level fidelities
\* and singvals).
ParStep ==
    /\ pc = "sweep"
    /\ \E i \in todo :
          /\ IsReferenceStep(i) \/ 0 \notin todo
          /\ \E sv \in CutSet : Body(i, sv)

ParStepFails ==
    /\ pc = "sweep"
    /\ \E i \in todo :
          /\ IsReferenceStep(i) \/ 0 \notin todo
          /\ Raise(i)

NextPar == ParStep \/ ParStepFails \/ LoopExit \/ ComputeInfidelities \/ PlotNorms

SpecPar == Init /\ [][NextPar]_vars

\* The loop is left after the reference step, before it ran out, and the rest
\* of the script runs on what was collected (an interrupted interactive
\* session).
Abandon ==
    /\ pc = "sweep"
    /\ todo # {}
    /\ reference_mps # NoMps
    /\ pc' = "report"
    /\ abandoned' = TRUE
    /\ UNCHANGED <<raw, bond_dims, fidelities, singvals, todo, idx, chi, res,
                   reference_mps, mps_state, infidelities, curves, error, calls>>

NextAbandon == Next \/ Abandon

SpecAbandon == Init /\ [][NextAbandon]_vars

\* ------------------------------------------------------- derived quantities
\* The bond dimensions of the sweep.
InputDims == Range(raw)

\* The backend invocations that returned, in order.
OkCalls == SelectSeq(calls, LAMBDA c : c.ok)

\* What the sweep has collected: one record per appended entry of singvals,
\* with the bond dimension of the run that appended it.
SweepResults ==
    [k \in 1..Len(singvals) |->
        [bond_dimension |-> OkCalls[k].chi,
         truncation_events |-> singvals[k],
         reference |-> reference_mps.tensors = TensNet(OkCalls[k].chi)]]

ResultDims == {SweepResults[k].bond_dimension : k \in DOMAIN SweepResults}

FailedDims == IF error = 0 THEN {} ELSE {error}

\* The singular values the backend returned for bond dimension d.
CutOf(d) == (CHOOSE c \in Range(calls) : c.chi = d /\ c.ok).cut

Terminated == pc \in {"done", "raised"}

\* The loop ran out: every simulation returned.
Completed == pc \in {"report", "norms", "done"} /\ ~abandoned

\* ------------------------------------------------------------------ claims
\* C1: when every backend invocation returns, the sweep holds exactly one
\* result per distinct bond dimension of the input, the result of the largest
\* bond dimension is the one and only result that is the reference, and it is
\* the first of the collection.
C1_SweepComplete ==
    Completed =>
        /\ Len(SweepResults) = Cardinality(InputDims)
        /\ \A d \in InputDims :
              Cardinality({k \in DOMAIN SweepResults :
                              SweepResults[k].bond_dimension = d}) = 1
        /\ SweepResults[1].bond_dimension = SetMax(InputDims)
        /\ \A k \in DOMAIN SweepResults : SweepResults[k].reference <=> (k = 1)

\* A completed sweep over three distinct bond dimensions holds three results.
C1_Witness ==
    /\ pc = "done"
    /\ ~abandoned
    /\ Cardinality(InputDims) = 3
    /\ Len(SweepResults) = 3
    /\ SweepResults[1].reference

C3_PartialFailureTolerated ==
    (/\ Terminated
     /\ Cardinality({k \in DOMAIN calls : ~calls[k].ok}) = 1
     /\ calls[1].ok) =>
        /\ pc = "done"
        /\ Len(calls) = Len(bond_dims)
        /\ FailedDims \cap ResultDims = {}
        /\ Len(infidelities) = Len(bond_dims) - 2
        /\ FailedDims # {}

\* C5 (as claimed): once the reference step has succeeded and the run has
\* ended, every bond dimension of the input either has a result or is on
\* record as failed, never both and never neither, and results plus failures
\* add up to the number of input bond dimensions.
C5_EveryDimAccounted ==
    (Terminated /\ calls # <<>> /\ calls[1].ok) =>
        /\ \A d \in InputDims : (d \in ResultDims) # (d \in FailedDims)
        /\ Len(SweepResults) + Cardinality(FailedDims) = Cardinality(InputDims)

\* The emulator built from the run at bond dimension d.
StateOf(d) == FromTensorlist(TensNet(d), ConvParams(d))

C6_OrderIndependent ==
    pc = "done" =>
        /\ \A k \in DOMAIN singvals :
              singvals[k] = CutOf(SweepOrder(bond_dims)[k])
        /\ \A i \in DOMAIN infidelities :
              infidelities[i] =
                 OneMinus(Fidelity(StateOf(SetMax(InputDims)), StateOf(bond_dims[i])))
        /\ \A j \in DOMAIN curves :
              curves[j].y = CumSum(CutOf(curves[j].label))

\* C7 (as claimed): when the loop is left after the reference step and the
\* report is built from what was collected, every entry of the report comes
\* from a step that has completed, there is exactly one entry per collected
\* result other than the reference, and every curve is the running sum of
\* the cut of the bond dimension it is labelled with.
C7_ReportFromCollected ==
    (pc = "done" /\ abandoned) =>
        /\ \A i \in DOMAIN infidelities : bond_dims[i] \in ResultDims
        /\ Cardinality({i \in DOMAIN infidelities :
                            bond_dims[i] # SetMax(InputDims)})
              = Len(SweepResults) - 1
        /\ \A j \in DOMAIN curves :
              /\ curves[j].label \in ResultDims
              /\ curves[j].y = CumSum(CutOf(curves[j].label))

\* C10: whatever the order of the input array, the backend is invoked on
\* strictly descending bond dimensions, the first invocation is the one of
\* the largest bond dimension, and a fidelity is only ever written once the
\* reference step has returned, against the state of that step.
C10_DescendingReferenceFirst ==
    /\ \A k \in DOMAIN calls :
          /\ k > 1 => calls[k].chi < calls[k - 1].chi
          /\ calls[k].chi \in InputDims
    /\ calls # <<>> => calls[1].chi = SetMax(InputDims)
    /\ \A i \in DOMAIN fidelities :
          fidelities[i] # Zero =>
              /\ calls[1].ok
              /\ reference_mps = StateOf(SetMax(InputDims))
              /\ fidelities[i].ref = SetMax(InputDims)

\* An ascending input array of at least three bond dimensions has been swept
\* to the end, the last fidelity written being that of the smallest one.
C10_Witness ==
    /\ Len(raw) >= 3
    /\ \A k \in 2..Len(raw) : raw[k - 1] < raw[k]
    /\ Len(calls) = Len(raw)
    /\ calls[Len(calls)].chi = raw[1]
    /\ fidelities[Len(fidelities)] = Fidelity(reference_mps, StateOf(raw[1]))

\* The number of backend invocations made for bond dimension d.
TimesInvoked(d) == Cardinality({k \in DOMAIN calls : calls[k].chi = d})

\* C11 (as claimed): the backend is invoked at most once per bond dimension,
\* a failed invocation is never issued again and is on record exactly once,
\* and once the run has ended with the reference step having succeeded, every
\* bond dimension of the input has been invoked exactly once.
C11_OncePerValue ==
    /\ \A d \in InputDims : TimesInvoked(d) <= 1
    /\ \A k \in DOMAIN calls : ~calls[k].ok => FailedDims = {calls[k].chi}
    /\ (Terminated /\ calls # <<>> /\ calls[1].ok) =>
          \A d \in InputDims : TimesInvoked(d) = 1

\* C12: once the reference has been set it is the state of the largest bond
\* dimension and no later step replaces it; and what a step has put into the
\* collection (its entry of singvals, its entry of fidelities) is left as it
\* is by every later step.
C12_ReferenceRetained ==
    [][reference_mps # NoMps =>
          /\ reference_mps = StateOf(SetMax(InputDims))
          /\ reference_mps' = reference_mps
          /\ Len(singvals') >= Len(singvals)
          /\ \A k \in DOMAIN singvals : singvals'[k] = singvals[k]
          /\ \A i \in DOMAIN fidelities :
                fidelities[i] # Zero => fidelities'[i] = fidelities[i]]_vars

\* The reference is in place and at least two later steps have run, the
\* current state being that of a smaller bond dimension.
C12_Witness ==
    /\ Len(singvals) >= 3
    /\ reference_mps = StateOf(SetMax(InputDims))
    /\ mps_state # reference_mps
    /\ fidelities[1] = Fidelity(reference_mps, reference_mps)

\* The entries of the report for bond dimensions other than the largest.
NonReferenceEntries ==
    {i \in DOMAIN infidelities : bond_dims[i] # SetMax(InputDims)}

\* C13 (as claimed): when the run ends with the reference and no other result
\* collected, the report is still built and has no entry besides the
\* reference's; with the reference and exactly one other result it is built
\* and has exactly one such entry.
C13_DegenerateReport ==
    (Terminated /\ calls # <<>> /\ calls[1].ok /\ Len(SweepResults) <= 2) =>
        /\ pc = "done"
        /\ Cardinality(NonReferenceEntries) = Len(SweepResults) - 1

====
